---- MODULE Spec2Model ----
(***************************************************************************)
(* The network-data preparation pipeline of the repository:                *)
(*   scripts/generate_network.py  (the Fetcher)  fetches a road graph,     *)
(*       normalises coordinates, labels nodes, weighs edges and writes     *)
(*       scripts/network_data.json;                                        *)
(*   scripts/filter_network.py    (the Filter)   reads that file, drops    *)
(*       the nodes left of the reference nodes and the edges touching      *)
(*       them, and overwrites the file.                                    *)
(*                                                                         *)
(* Numbers.  Raw coordinates are integers.  The Fetcher's arithmetic is    *)
(* exact rational arithmetic on pairs <<numerator, denominator>>; a value  *)
(* rounded to two decimals (round(v, 2)) is held as an integer number of   *)
(* hundredths, a weight rounded to one decimal as an integer number of     *)
(* tenths.  A label is the sequence of its character codes.                *)
(***************************************************************************)
EXTENDS Integers, Sequences, FiniteSets, TLC

VARIABLES
    osm,            \* the road graph the provider holds for the bounding box
    file,           \* scripts/network_data.json on disk
    script,         \* which script ran last / is running: "none", "generate", "filter"
    pc,             \* position of the running script
    data,           \* filter_network.py: data (the loaded document)
    filtered_data,  \* filter_network.py: filtered_data
    G,              \* generate_network.py: G (the fetched raw graph)
    scale,          \* generate_network.py: scale (<<>> while the name is unbound)
    nodes,          \* generate_network.py: nodes
    edges,          \* generate_network.py: edges
    idx,            \* generate_network.py: idx of the labelling loop (label harness)
    label           \* generate_network.py: label assigned at idx (label harness)

vars == <<osm, file, script, pc, data, filtered_data, G, scale, nodes, edges, idx, label>>

----------------------------------------------------------------------------
(* Bounds of the model *)

MaxDocEdges == 2
MaxNodes == 2
MaxEdges == 1
MaxCoord == 2
Far == 600
MaxIdx == 710

----------------------------------------------------------------------------
(* Helpers *)

Range(s) == {s[i] : i \in 1..Len(s)}

\* Python's min() over a non-empty list of numbers
py_min(s) == CHOOSE m \in Range(s) : \A v \in Range(s) : m <= v

\* Python's max() over a non-empty list of numbers
py_max(s) == CHOOSE m \in Range(s) : \A v \in Range(s) : m >= v

\* the members of a set of integers in increasing order
SortedSeq(S) ==
    CHOOSE s \in [1..Cardinality(S) -> S] : \A i, j \in 1..Cardinality(S) : i < j => s[i] < s[j]

EmptyDoc == [nodes |-> <<>>, edges |-> <<>>]

----------------------------------------------------------------------------
(* Exact arithmetic: a rational is <<numerator, denominator>>, denominator > 0, *)
(* in lowest terms                                                              *)

Abs(n) == IF n < 0 THEN -n ELSE n

RECURSIVE GCD(_, _)
GCD(a, b) == IF b = 0 THEN a ELSE GCD(b, a % b)

Rat(n, d) == LET g == GCD(Abs(n), d) IN <<n \div g, d \div g>>
RatInt(n) == <<n, 1>>
RatAdd(a, b) == Rat(a[1] * b[2] + b[1] * a[2], a[2] * b[2])
RatSub(a, b) == Rat(a[1] * b[2] - b[1] * a[2], a[2] * b[2])
RatMul(a, b) == Rat(a[1] * b[1], a[2] * b[2])
\* a / b for b > 0
RatDiv(a, b) == Rat(a[1] * b[2], a[2] * b[1])
RatLess(a, b) == a[1] * b[2] < b[1] * a[2]

\* n/d rounded to the nearest integer, ties to even
RoundHalfEven(n, d) ==
    LET q == n \div d
        r == n % d
    IN IF 2 * r < d THEN q
       ELSE IF 2 * r > d THEN q + 1
       ELSE IF q % 2 = 0 THEN q ELSE q + 1

\* round(v, 2), in hundredths
round_2(v) == RoundHalfEven(100 * v[1], v[2])

----------------------------------------------------------------------------
(* The file and its JSON (de)serialisation *)

NoFile == [kind |-> "missing", nodes |-> <<>>, edges |-> <<>>]
Malformed == [kind |-> "malformed", nodes |-> <<>>, edges |-> <<>>]

\* json.dump(d, f, indent=2): the text is a function of the document alone;
\* each node is written as the object id,x,y,label and each edge as from,to,weight
json_dump(d) ==
    [kind |-> "json",
     nodes |-> [i \in 1..Len(d.nodes) |->
                  <<d.nodes[i].id, d.nodes[i].x, d.nodes[i].y, d.nodes[i].label>>],
     edges |-> [i \in 1..Len(d.edges) |->
                  <<d.edges[i].from, d.edges[i].to, d.edges[i].weight>>]]

\* json.load(f) of a well-formed file
json_load(f) ==
    [nodes |-> [i \in 1..Len(f.nodes) |->
                  [id |-> f.nodes[i][1], x |-> f.nodes[i][2],
                   y |-> f.nodes[i][3], label |-> f.nodes[i][4]]],
     edges |-> [i \in 1..Len(f.edges) |->
                  [from |-> f.edges[i][1], to |-> f.edges[i][2],
                   weight |-> f.edges[i][3]]]]

\* a script starts only when no script is running
Idle == pc \in {"idle", "done", "failed"}

----------------------------------------------------------------------------
(* filter_network.py *)

ref_nodes == <<"3339821648", "250691723", "250691724", "250698924", "250698925",
               "250698926", "250699982", "250699983", "250702474", "250700248">>

\* line 13, the condition of the comprehension
IsRefNode(n) == n.id \in Range(ref_nodes)

\* line 13
ref_x_coords(d) ==
    LET sel == SelectSeq(d.nodes, IsRefNode)
    IN [i \in 1..Len(sel) |-> sel[i].x]

min_x_first(d) == ref_x_coords(d)[1]

\* line 14
min_x(d) == py_min(ref_x_coords(d))

KeepNode_strict(n, d) == n.x > min_x(d)

\* line 18, the condition of the comprehension
KeepNode(n, d) == n.x >= min_x(d)

nodes_to_keep(d) ==
    LET Keep(n) == KeepNode(n, d)
    IN SelectSeq(d.nodes, Keep)

node_ids_to_keep(d) == {n.id : n \in Range(nodes_to_keep(d))}

KeepEdge_from_only(e, d) == e.from \in node_ids_to_keep(d)

KeepEdge_either(e, d) == e.from \in node_ids_to_keep(d) \/ e.to \in node_ids_to_keep(d)

\* line 23, the condition of the comprehension
KeepEdge(e, d) == e.from \in node_ids_to_keep(d) /\ e.to \in node_ids_to_keep(d)

edges_to_keep(d) ==
    LET Keep(e) == KeepEdge(e, d)
    IN SelectSeq(d.edges, Keep)

FilterDoc_reversed(d) ==
    [nodes |-> [i \in 1..Len(nodes_to_keep(d)) |->
                  nodes_to_keep(d)[Len(nodes_to_keep(d)) + 1 - i]],
     edges |-> edges_to_keep(d)]

\* lines 29-32, filtered_data
FilterDoc(d) == [nodes |-> nodes_to_keep(d), edges |-> edges_to_keep(d)]

\* the names of the script that ran before are gone with its process
NoGenerateNames == G' = EmptyDoc /\ scale' = <<>> /\ nodes' = <<>> /\ edges' = <<>>
NoFilterNames == data' = EmptyDoc /\ filtered_data' = EmptyDoc

\* lines 5-6, the file is there and parses
FilterLoad ==
    /\ Idle
    /\ file.kind = "json"
    /\ script' = "filter"
    /\ data' = json_load(file)
    /\ filtered_data' = EmptyDoc
    /\ NoGenerateNames
    /\ pc' = "flt_loaded"
    /\ UNCHANGED <<osm, file, idx, label>>

\* lines 5-6, open() or json.load() raises
FilterLoadFail ==
    /\ Idle
    /\ file.kind # "json"
    /\ script' = "filter"
    /\ NoFilterNames
    /\ NoGenerateNames
    /\ pc' = "failed"
    /\ UNCHANGED <<osm, file, idx, label>>

\* lines 13-32
FilterCompute ==
    /\ pc = "flt_loaded"
    /\ ref_x_coords(data) # <<>>
    /\ filtered_data' = FilterDoc(data)
    /\ pc' = "flt_computed"
    /\ UNCHANGED <<osm, file, script, data, G, scale, nodes, edges, idx, label>>

FilterComputeFail_truncating ==
    /\ pc = "flt_loaded"
    /\ ref_x_coords(data) = <<>>
    /\ file' = Malformed
    /\ pc' = "failed"
    /\ UNCHANGED <<osm, script, data, filtered_data, G, scale, nodes, edges, idx, label>>

\* line 14, min() of an empty list raises ValueError
FilterComputeFail ==
    /\ pc = "flt_loaded"
    /\ ref_x_coords(data) = <<>>
    /\ pc' = "failed"
    /\ UNCHANGED <<osm, file, script, data, filtered_data, G, scale, nodes, edges, idx, label>>

\* lines 34-35
FilterSave ==
    /\ pc = "flt_computed"
    /\ file' = json_dump(filtered_data)
    /\ pc' = "done"
    /\ UNCHANGED <<osm, script, data, filtered_data, G, scale, nodes, edges, idx, label>>

----------------------------------------------------------------------------
(* generate_network.py *)

svg_width == 750
svg_height == 550
margin == 25
padding == <<1, 10>>

\* random.uniform(1, 20) rounded to one decimal, in tenths: the two extremes
Weights == {10, 200}

\* str(node_id)
str(node_id) == ToString(node_id)

all_x(g) == [i \in 1..Len(g.nodes) |-> g.nodes[i].x]
all_y(g) == [i \in 1..Len(g.nodes) |-> g.nodes[i].y]

\* lines 51-52, the ranges before padding
x_range(g) == py_max(all_x(g)) - py_min(all_x(g))
y_range(g) == py_max(all_y(g)) - py_min(all_y(g))

\* lines 53-56, min_x .. max_y after padding
min_x_padded(g) == RatSub(RatInt(py_min(all_x(g))), RatMul(RatInt(x_range(g)), padding))
max_x_padded(g) == RatAdd(RatInt(py_max(all_x(g))), RatMul(RatInt(x_range(g)), padding))
min_y_padded(g) == RatSub(RatInt(py_min(all_y(g))), RatMul(RatInt(y_range(g)), padding))
max_y_padded(g) == RatAdd(RatInt(py_max(all_y(g))), RatMul(RatInt(y_range(g)), padding))

\* lines 58-59, the ranges after padding
x_range_padded(g) == RatSub(max_x_padded(g), min_x_padded(g))
y_range_padded(g) == RatSub(max_y_padded(g), min_y_padded(g))

\* line 66
scale_x(g) ==
    IF RatLess(RatInt(0), x_range_padded(g))
    THEN RatDiv(RatInt(svg_width - 2 * margin), x_range_padded(g))
    ELSE RatInt(1)

\* line 67
scale_y(g) ==
    IF RatLess(RatInt(0), y_range_padded(g))
    THEN RatDiv(RatInt(svg_height - 2 * margin), y_range_padded(g))
    ELSE RatInt(1)

pick_scale_max(sx, sy) == IF RatLess(sx, sy) THEN sy ELSE sx

\* line 68, min(scale_x, scale_y)
pick_scale(sx, sy) == IF RatLess(sy, sx) THEN sy ELSE sx

gen_scale_default_one(g) ==
    IF g.nodes # <<>> THEN pick_scale(scale_x(g), scale_y(g)) ELSE RatInt(1)

\* lines 43-68: scale is bound only inside `if node_positions:`
gen_scale(g) ==
    IF g.nodes # <<>> THEN pick_scale(scale_x(g), scale_y(g)) ELSE <<>>

\* lines 73-74, margin + (v - lo) * s
normalized(v, lo, s) == RatAdd(RatInt(margin), RatMul(RatSub(RatInt(v), lo), s))

\* lines 77-80, chr() as the character's code
Label(i) ==
    IF i < 26 THEN <<65 + i>>
    ELSE <<65 + ((i \div 26) - 1), 65 + (i % 26)>>

\* lines 72-87
gen_nodes(g) ==
    IF g.nodes # <<>>
    THEN LET s == gen_scale(g)
             lo_x == min_x_padded(g)
             lo_y == min_y_padded(g)
         IN [i \in 1..Len(g.nodes) |->
               [id |-> str(g.nodes[i].id),
                x |-> round_2(normalized(g.nodes[i].x, lo_x, s)),
                y |-> round_2(normalized(g.nodes[i].y, lo_y, s)),
                label |-> Label(i - 1)]]
    ELSE <<>>

\* line 88
node_id_map(g) == [id \in {n.id : n \in Range(g.nodes)} |-> str(id)]

\* lines 91-99, w[i] the weight drawn for the i-th edge emitted
gen_edges(g, w) ==
    IF g.nodes # <<>>
    THEN LET InMap(e) == e.u \in DOMAIN node_id_map(g) /\ e.v \in DOMAIN node_id_map(g)
             kept == SelectSeq(g.edges, InMap)
         IN [i \in 1..Len(kept) |->
               [from |-> node_id_map(g)[kept[i].u],
                to |-> node_id_map(g)[kept[i].v],
                weight |-> w[i]]]
    ELSE <<>>

\* lines 21-31, the provider answers; a fresh process binds G, nodes, edges
FetchGraph ==
    /\ Idle
    /\ script' = "generate"
    /\ G' = osm
    /\ scale' = <<>>
    /\ nodes' = <<>>
    /\ edges' = <<>>
    /\ NoFilterNames
    /\ pc' = "gen_fetched"
    /\ UNCHANGED <<osm, file, idx, label>>

\* lines 21-25, the provider is unreachable or raises
FetchGraphFail ==
    /\ Idle
    /\ script' = "generate"
    /\ NoGenerateNames
    /\ NoFilterNames
    /\ pc' = "failed"
    /\ UNCHANGED <<osm, file, idx, label>>

\* lines 33-107
GenerateCompute ==
    /\ pc = "gen_fetched"
    /\ \E w \in [1..Len(G.edges) -> Weights] :
          /\ scale' = gen_scale(G)
          /\ nodes' = gen_nodes(G)
          /\ edges' = gen_edges(G, w)
    /\ pc' = "gen_computed"
    /\ UNCHANGED <<osm, file, script, data, filtered_data, G, idx, label>>

\* lines 109-111
GenerateSave ==
    /\ pc = "gen_computed"
    /\ file' = json_dump([nodes |-> nodes, edges |-> edges])
    /\ pc' = "done"
    /\ UNCHANGED <<osm, script, data, filtered_data, G, scale, nodes, edges, idx, label>>

\* lines 77-80 on their own: the label of the node at index idx
AssignLabel ==
    /\ label = <<>>
    /\ label' = Label(idx)
    /\ UNCHANGED <<osm, file, script, pc, data, filtered_data, G, scale, nodes, edges, idx>>

----------------------------------------------------------------------------
(* The provider's graphs *)

RawIds == <<7, 250691723, 250691724>>

\* the id lists of the graphs: any MaxNodes of the ids, in the list's order
RawIdLists ==
    {[i \in 1..Cardinality(S) |-> RawIds[SortedSeq(S)[i]]] :
        S \in {T \in SUBSET (1..Len(RawIds)) : Cardinality(T) <= MaxNodes}}

\* G.edges iterates source by source, in node order
RawEdgeLists(ns, maxE) ==
    LET pairs == [u : 1..Len(ns), v : 1..Len(ns)]
    IN UNION {{[i \in 1..k |-> [u |-> ns[s[i].u].id, v |-> ns[s[i].v].id]] :
                 s \in {t \in [1..k -> pairs] : \A i, j \in 1..k : i < j => t[i].u <= t[j].u}}
              : k \in 0..maxE}

\* g is a graph the provider may hold: coordinates in XS and YS, at most maxE edges
IsRawGraph(g, XS, YS, maxE) ==
    \E ids \in RawIdLists :
        \E xs \in [1..Len(ids) -> XS], ys \in [1..Len(ids) -> YS] :
            LET ns == [i \in 1..Len(ids) |-> [id |-> ids[i], x |-> xs[i], y |-> ys[i]]]
            IN \E es \in RawEdgeLists(ns, maxE) : g = [nodes |-> ns, edges |-> es]

RawCoords == (0..MaxCoord) \cup {Far}

----------------------------------------------------------------------------
(* Documents the Filter may be given *)

DocIds == <<"1", "250691723", "3339821648">>
DocXs == {0, 5, 10}
DocWeights == {10, 200}

\* node lists: any selection of the ids, in the list's order, with any x;
\* y and label are those of a node at that position
DocNodeLists ==
    UNION {
        {[i \in 1..Cardinality(S) |->
             [id |-> DocIds[SortedSeq(S)[i]], x |-> xs[i], y |-> 2500 + 100 * i,
              label |-> Label(i - 1)]] : xs \in [1..Cardinality(S) -> DocXs]}
        : S \in SUBSET (1..Len(DocIds))}

\* edges between two different ids, whether or not the document holds their nodes
DocEdges ==
    {e \in [from : Range(DocIds), to : Range(DocIds), weight : DocWeights] : e.from # e.to}

DocEdgeLists == UNION {[1..k -> DocEdges] : k \in 0..MaxDocEdges}

----------------------------------------------------------------------------
(* Specifications *)

Blank ==
    /\ script = "none"
    /\ pc = "idle"
    /\ data = EmptyDoc
    /\ filtered_data = EmptyDoc
    /\ G = EmptyDoc
    /\ scale = <<>>
    /\ nodes = <<>>
    /\ edges = <<>>
    /\ idx = 0
    /\ label = <<>>

\* The pipeline: no file yet, the Fetcher and the Filter run in any order
Init ==
    /\ IsRawGraph(osm, 0..MaxCoord, {0}, MaxEdges)
    /\ file = NoFile
    /\ Blank

Next ==
    \/ FetchGraph
    \/ FetchGraphFail
    \/ GenerateCompute
    \/ GenerateSave
    \/ FilterLoad
    \/ FilterLoadFail
    \/ FilterCompute
    \/ FilterComputeFail
    \/ FilterSave

Spec == Init /\ [][Next]_vars

\* The Fetcher alone on graphs spread over both axes
InitNormalize ==
    /\ IsRawGraph(osm, RawCoords, RawCoords, 0)
    /\ file = NoFile
    /\ Blank

NextNormalize ==
    \/ FetchGraph
    \/ FetchGraphFail
    \/ GenerateCompute
    \/ GenerateSave

SpecNormalize == InitNormalize /\ [][NextNormalize]_vars

\* The Filter alone on any document
InitFilter ==
    /\ osm = EmptyDoc
    /\ \/ file \in {NoFile, Malformed}
       \/ \E ns \in DocNodeLists, es \in DocEdgeLists :
             file = json_dump([nodes |-> ns, edges |-> es])
    /\ Blank

NextFilter ==
    \/ FilterLoad
    \/ FilterLoadFail
    \/ FilterCompute
    \/ FilterComputeFail
    \/ FilterSave

SpecFilter == InitFilter /\ [][NextFilter]_vars

\* The labelling alone on any index
InitLabel ==
    /\ osm = EmptyDoc
    /\ file = NoFile
    /\ script = "generate"
    /\ pc = "gen_fetched"
    /\ data = EmptyDoc
    /\ filtered_data = EmptyDoc
    /\ G = EmptyDoc
    /\ scale = <<>>
    /\ nodes = <<>>
    /\ edges = <<>>
    /\ idx \in 0..MaxIdx
    /\ label = <<>>

NextLabel == AssignLabel

SpecLabel == InitLabel /\ [][NextLabel]_vars

----------------------------------------------------------------------------
(* Properties *)

Ids(ns) == {n.id : n \in Range(ns)}

\* a[i..] can be matched, in order, against records of b[j..]
RECURSIVE SubseqAt(_, _, _, _)
SubseqAt(a, b, i, j) ==
    IF i > Len(a) THEN TRUE
    ELSE IF j > Len(b) THEN FALSE
    ELSE IF a[i] = b[j] THEN SubseqAt(a, b, i + 1, j + 1)
    ELSE SubseqAt(a, b, i, j + 1)

\* a is b with some records left out: same records, same relative order
IsSubseq(a, b) == SubseqAt(a, b, 1, 1)

FilterComputed == script = "filter" /\ pc = "flt_computed"

\* C1: a second Filter run on the file the first run writes completes (it finds
\* a reference node) and writes the very same file.
C1_FilterIdempotent ==
    FilterComputed =>
        LET written == json_dump(filtered_data)
            again == json_load(written)
        IN /\ ref_x_coords(again) # <<>>
           /\ json_dump(FilterDoc(again)) = written

C1_Witness ==
    /\ FilterComputed
    /\ Len(filtered_data.nodes) = 2
    /\ Len(data.nodes) = 3
    /\ Len(filtered_data.edges) = 1
    /\ Len(data.edges) = 2

\* the least x among the input nodes whose id is a reference id
C2_min_x ==
    CHOOSE m \in {n.x : n \in {r \in Range(data.nodes) : r.id \in Range(ref_nodes)}} :
        \A n \in Range(data.nodes) : n.id \in Range(ref_nodes) => m <= n.x

\* C2: the Filter keeps exactly the input nodes whose x is at least the least x
\* of the reference nodes present, so no output node lies below that threshold.
C2_KeepsExactlyRightOfMinX ==
    FilterComputed =>
        /\ \A i \in 1..Len(data.nodes) :
              (data.nodes[i].x >= C2_min_x) <=> (data.nodes[i] \in Range(filtered_data.nodes))
        /\ \A n \in Range(filtered_data.nodes) : n.x >= C2_min_x

\* the spec's scenario: x = 0, 5, 10 with the x = 5 node the least reference node
C2_Witness ==
    /\ FilterComputed
    /\ [i \in 1..Len(data.nodes) |-> data.nodes[i].x] = <<0, 5, 10>>
    /\ C2_min_x = 5
    /\ [i \in 1..Len(filtered_data.nodes) |-> filtered_data.nodes[i].x] = <<5, 10>>

\* C3: an input edge is in the output iff its from id and its to id are both
\* ids of output nodes.
C3_EdgeIffBothEndpoints ==
    FilterComputed =>
        \A i \in 1..Len(data.edges) :
            (data.edges[i] \in Range(filtered_data.edges)) <=>
                (/\ data.edges[i].from \in Ids(filtered_data.nodes)
                 /\ data.edges[i].to \in Ids(filtered_data.nodes))

\* one edge survives, one is dropped although its from node survives
C3_Witness ==
    /\ FilterComputed
    /\ Len(data.edges) = 2
    /\ Len(filtered_data.edges) = 1
    /\ \E i \in 1..2 :
          /\ data.edges[i].from \in Ids(filtered_data.nodes)
          /\ data.edges[i].to \notin Ids(filtered_data.nodes)

\* C4: whatever the Fetcher wrote and however often the Filter rewrote it, every
\* edge of the file joins two nodes of the file.
C4_NoDanglingEdges ==
    file.kind = "json" =>
        \A e \in Range(json_load(file).edges) :
            /\ e.from \in Ids(json_load(file).nodes)
            /\ e.to \in Ids(json_load(file).nodes)

\* the Filter has dropped a node and the edge the Fetcher had emitted at it
C4_Witness ==
    /\ script = "filter"
    /\ pc = "done"
    /\ Len(data.nodes) = 2
    /\ Len(data.edges) = 1
    /\ data.edges[1].from # data.edges[1].to
    /\ Len(file.nodes) = 1
    /\ Len(file.edges) = 0

\* C5: a Filter run that gets as far as computing or writing its result has
\* found every reference id among the input nodes.
C5_FailsOnMissingReference ==
    (script = "filter" /\ pc \in {"flt_computed", "done"}) =>
        \A i \in 1..Len(ref_nodes) : ref_nodes[i] \in Ids(data.nodes)

\* C6: the file changes only by the write that follows a finished computation,
\* so a run that ends in failure has left the file as it found it.
C6_WriteAfterCompute ==
    [][/\ (pc' = "failed" => file' = file)
       /\ (file' # file => (pc \in {"flt_computed", "gen_computed"} /\ pc' = "done"))]_vars

\* the Filter failed on min() of no reference node, over a file the Fetcher wrote
C6_Witness ==
    /\ script = "filter"
    /\ pc = "failed"
    /\ file.kind = "json"
    /\ data = json_load(file)
    /\ ref_x_coords(data) = <<>>

\* C7: every node the Fetcher emits has x in [margin, svg_width - margin] and
\* y in [margin, svg_height - margin] (in hundredths).
C7_NodesWithinCanvas ==
    (script = "generate" /\ pc = "gen_computed") =>
        \A n \in Range(nodes) :
            /\ 100 * margin <= n.x /\ n.x <= 100 * (svg_width - margin)
            /\ 100 * margin <= n.y /\ n.y <= 100 * (svg_height - margin)

\* the x range is zero, so scale_x fell back to 1, and min() took scale_y
C7_Witness ==
    /\ script = "generate"
    /\ pc = "gen_computed"
    /\ Len(G.nodes) = 2
    /\ x_range(G) = 0
    /\ y_range(G) = Far
    /\ scale_x(G) = RatInt(1)
    /\ scale = scale_y(G)
    /\ nodes[2].y > nodes[1].y

C8_ZeroNodeRun == script = "generate" /\ G.nodes = <<>>

\* C8 as stated: on a graph of zero nodes the run completes, writes the empty
\* document, and its scale has fallen back to 1.
C8_ScaleFallsBackToOne ==
    (C8_ZeroNodeRun /\ pc \in {"gen_computed", "done"}) =>
        /\ scale = RatInt(1)
        /\ nodes = <<>>
        /\ edges = <<>>
        /\ (pc = "done" => file = json_dump(EmptyDoc))

\* C8 as amended: on a graph of zero nodes the run completes and writes the
\* empty document, and the scale computation is skipped: scale is never bound.
C8_ZeroNodesSkipScale ==
    /\ (C8_ZeroNodeRun /\ pc = "gen_fetched") => ENABLED GenerateCompute
    /\ (C8_ZeroNodeRun /\ pc = "gen_computed") => ENABLED GenerateSave
    /\ (C8_ZeroNodeRun /\ pc \in {"gen_computed", "done"}) =>
          /\ scale = <<>>
          /\ nodes = <<>>
          /\ edges = <<>>
          /\ (pc = "done" => file = json_dump(EmptyDoc))

C8_Witness ==
    /\ C8_ZeroNodeRun
    /\ pc = "done"
    /\ osm.nodes = <<>>
    /\ file = json_dump(EmptyDoc)

\* C9: the label at index i < 26 is the letter at i; at every i >= 26 it is two
\* characters, at (i // 26 - 1) and (i % 26), both of them letters A-Z.
C9_LabelsAreLetters ==
    label # <<>> =>
        IF idx < 26
        THEN label = <<65 + idx>>
        ELSE /\ Len(label) = 2
             /\ label[1] = 65 + ((idx \div 26) - 1)
             /\ label[2] = 65 + (idx % 26)
             /\ \A i \in 1..2 : label[i] \in 65..90

\* C10: the output node list and edge list are the input lists with whole
\* records left out: no record added, altered or moved.
C10_FilterOnlyRemoves ==
    FilterComputed =>
        /\ IsSubseq(filtered_data.nodes, data.nodes)
        /\ IsSubseq(filtered_data.edges, data.edges)

\* two of three nodes and two distinct edges survive, in their order
C10_Witness ==
    /\ FilterComputed
    /\ Len(data.nodes) = 3
    /\ Len(filtered_data.nodes) = 2
    /\ Len(filtered_data.edges) = 2
    /\ filtered_data.edges[1] # filtered_data.edges[2]

====
